---- MODULE Spec2Model ----
(***************************************************************************)
(* Model of src/src/pl_train.py: the ScorerPLWrapper LightningModule, its  *)
(* three step handlers, its three epoch-start hooks and the torchmetrics   *)
(* accumulators they own.                                                  *)
(*                                                                         *)
(* Abstractions:                                                           *)
(*  - a token row is identified with the score Scorer.forward gives it     *)
(*    under the current weights (the encoder is a black box), so the       *)
(*    column "pos_samples" holds one integer score per row;                *)
(*  - float32 values are modelled by what decides the claims: exp() by its *)
(*    overflow/underflow class, sigmoid() by the position of its result in *)
(*    the ordered list of float32 values it can return (it saturates), a   *)
(*    loss by its class (finite, inf, nan) and, when finite, by the        *)
(*    argument d of softplus(d) = log(1 + e^d) it equals;                  *)
(*  - a tensor of shape [n] is a sequence of length n; elementwise         *)
(*    operations broadcast as torch does (equal sizes, or one size is 1).  *)
(***************************************************************************)
EXTENDS Integers, Sequences, FiniteSets, TLC

VARIABLES
    train_acc,            \* self.train_acc
    val_acc,              \* self.val_acc
    test_acc,             \* self.test_acc
    test_spearman_coeff,  \* self.test_spearman_coeff
    epoch,                \* per phase: "idle", "running" or "stopped" (cut short)
    seen,                 \* per phase: the step calls of the current epoch
    global_step,          \* step handler calls so far
    batch,                \* the batch under study (single-step specification)
    last,                 \* the latest handler call and what it computed
    logged                \* what the latest handler call gave to self.log

vars == <<train_acc, val_acc, test_acc, test_spearman_coeff,
          epoch, seen, global_step, batch, last, logged>>

metrics == <<train_acc, val_acc, test_acc, test_spearman_coeff>>

\* ------------------------------------------------------------------ bounds
\* rows of a batch in the single-step specification
MaxB == 3
\* step handler calls in one run of the lifecycle specification
MaxSteps == 3

\* ------------------------------------------------------------- batches
Phases == {"train", "val", "test"}

Keys == {"pos_samples", "pos_atn_masks", "neg_samples", "neg_atn_masks",
         "score_pos", "score_neg", "rank_pos", "rank_neg"}

Ex(p, n, sp, sn, rp, rn) ==
    [pos |-> p, neg |-> n, score_pos |-> sp, score_neg |-> sn,
     rank_pos |-> rp, rank_neg |-> rn]

\* One example per case the handlers distinguish.
Examples ==
    { Ex(2, 0, 5, 1, 1, 2),            \* model and feedback both prefer pos
      Ex(-1, 1, 1, 3, 2, 1),           \* model and feedback both prefer neg
      Ex(0, 0, 4, 0, 1, 3),            \* equal model scores
      Ex(1, 0, 3, 3, 2, 2),            \* equal feedback scores
      Ex(10000, 20, 1, 5, 3, 1) }      \* exp overflows, both sigmoids saturate

SeqsUpTo(S, n) == UNION { [1..k -> S] : k \in 1..n }

Col(exs, f) == [i \in 1..Len(exs) |-> exs[i][f]]

MkBatch(exs) ==
    [pos_samples   |-> Col(exs, "pos"),
     pos_atn_masks |-> [i \in 1..Len(exs) |-> 1],
     neg_samples   |-> Col(exs, "neg"),
     neg_atn_masks |-> [i \in 1..Len(exs) |-> 1],
     score_pos     |-> Col(exs, "score_pos"),
     score_neg     |-> Col(exs, "score_neg"),
     rank_pos      |-> Col(exs, "rank_pos"),
     rank_neg      |-> Col(exs, "rank_neg")]

\* the ways a batch source can hand over a malformed batch
DropKey(b, k) == [x \in (DOMAIN b) \ {k} |-> b[x]]
CutCol(b, k, m) == [b EXCEPT ![k] = SubSeq(b[k], 1, m)]
CutRole(b, role, m) ==
    IF role = "pos"
    THEN CutCol(CutCol(b, "pos_samples", m), "pos_atn_masks", m)
    ELSE CutCol(CutCol(b, "neg_samples", m), "neg_atn_masks", m)

Malformed(b, n) ==
    { DropKey(b, k) : k \in Keys }
    \cup { CutRole(b, r, m) : r \in {"pos", "neg"}, m \in 1..(n - 1) }
    \cup { CutCol(b, k, m) : k \in {"rank_pos", "rank_neg"}, m \in 1..(n - 1) }

\* every batch of up to n rows, well-formed or malformed
Batches(n) ==
    UNION { {MkBatch(exs)} \cup Malformed(MkBatch(exs), Len(exs))
            : exs \in SeqsUpTo(Examples, n) }

\* The batches of the lifecycle specification: one and two rows, all, half
\* and none of the rows predicted as the feedback says, and two batches that
\* make a step raise (test_step late, every step early).
EpochBatches ==
    LET hit  == Ex(2, 0, 5, 1, 1, 2)
        miss == Ex(0, 0, 4, 0, 1, 3)
    IN  { MkBatch(<<hit>>), MkBatch(<<miss>>), MkBatch(<<hit, miss>>),
          DropKey(MkBatch(<<hit>>), "rank_pos"),
          DropKey(MkBatch(<<hit, miss>>), "score_neg") }

HasKeys(b, ks) == ks \subseteq DOMAIN b

\* every key present and every column of the same number of rows
WellFormed(b) ==
    /\ DOMAIN b = Keys
    /\ \A k \in Keys : Len(b[k]) = Len(b["pos_samples"])

\* ------------------------------------------------------ tensor arithmetic
Broadcastable(m, n) == m = n \/ m = 1 \/ n = 1
BLen(m, n) == IF m = 1 THEN n ELSE m
BAt(s, i) == IF Len(s) = 1 THEN s[1] ELSE s[i]

\* torch.exp in float32: +inf above ~88.7, 0 below ~-103.9
Exp(x) ==
    IF x > 88 THEN [k |-> "inf"]
    ELSE IF x < -103 THEN [k |-> "zero"]
    ELSE [k |-> "fin", e |-> x]

\* exp(pos) / (exp(pos) + exp(neg)) followed by -log(.), per element
NaiveLoss(p, n) ==
    LET a == Exp(p)
        c == Exp(n)
    IN  IF a.k = "inf" THEN [kind |-> "nan"]                 \* inf / inf
        ELSE IF c.k = "inf" THEN [kind |-> "inf"]            \* -log(x / inf) = -log(0)
        ELSE IF a.k = "zero" /\ c.k = "zero" THEN [kind |-> "nan"]   \* 0 / 0
        ELSE IF a.k = "zero" THEN [kind |-> "inf"]           \* -log(0 / x)
        ELSE IF c.k = "fin" /\ a.e - c.e < -103 THEN [kind |-> "inf"]  \* quotient underflows
        ELSE [kind |-> "finite", d |-> n - p]

\* torch.sigmoid in float32, as the index of its result among the values it
\* returns: 0 for 0.0, 121 for 1.0 (reached from x = 17 on), 104 for 0.5
Sigmoid(x) ==
    IF x >= 17 THEN 121
    ELSE IF x < -103 THEN 0
    ELSE x + 104

SigmoidAll(s) == [i \in 1..Len(s) |-> Sigmoid(s[i])]

\* mutant of Targets: equal feedback scores count as a preference
Targets_NonStrict(b) ==
    LET sp == b["score_pos"]
        sn == b["score_neg"]
    IN  [i \in 1..BLen(Len(sp), Len(sn)) |->
            IF BAt(sp, i) - BAt(sn, i) >= 0 THEN 1 ELSE 0]

\* ((batch["score_pos"] - batch["score_neg"]) > 0).long()
Targets(b) ==
    LET sp == b["score_pos"]
        sn == b["score_neg"]
    IN  [i \in 1..BLen(Len(sp), Len(sn)) |->
            IF BAt(sp, i) - BAt(sn, i) > 0 THEN 1 ELSE 0]

\* Scorer.forward: one score per row of each role, the two passes independent
Scorer(b) == [pos_score |-> b["pos_samples"], neg_score |-> b["neg_samples"]]

\* -torch.log(exp(pos) / (exp(pos) + exp(neg))): one loss per example
Loss(ps, ns) ==
    [i \in 1..BLen(Len(ps), Len(ns)) |-> NaiveLoss(BAt(ps, i), BAt(ns, i))]

\* (torch.sigmoid(pos_score) - torch.sigmoid(neg_score)) > 0
TrainPreds(ps, ns) ==
    [i \in 1..BLen(Len(ps), Len(ns)) |->
        Sigmoid(BAt(ps, i)) - Sigmoid(BAt(ns, i)) > 0]

\* mutant of TestPreds: the comparison is not strict
TestPreds_NonStrict(sps, sns) ==
    [i \in 1..BLen(Len(sps), Len(sns)) |-> BAt(sps, i) - BAt(sns, i) >= 0]

\* (pos_score - neg_score) > 0 on the scores test_step has already transformed
TestPreds(sps, sns) ==
    [i \in 1..BLen(Len(sps), Len(sns)) |-> BAt(sps, i) - BAt(sns, i) > 0]

\* ------------------------------------------------------------ accumulators
\* torchmetrics.Accuracy: correct and total since the last reset
EmptyAcc == [correct |-> 0, total |-> 0]
AccReset(a) == EmptyAcc
NumCorrect(preds, targets) ==
    Cardinality({i \in 1..Len(preds) : preds[i] = (targets[i] = 1)})
AccUpdate(a, preds, targets) ==
    [correct |-> a.correct + NumCorrect(preds, targets),
     total   |-> a.total + Len(preds)]
\* compute(): correct / total as a fraction; <<0, 0>> is the empty state
Value(a) == <<a.correct, a.total>>

\* torchmetrics.SpearmanCorrCoef: the (score, rank) pairs since the last reset
EmptySpearman == [preds |-> <<>>, target |-> <<>>]
SpearmanReset(s) == EmptySpearman
SpearmanUpdate(s, scores, ranks) ==
    [preds |-> s.preds \o scores, target |-> s.target \o ranks]

\* ------------------------------------------------------------ step handlers
Raised(kind, acc, targets, preds) ==
    [outcome |-> kind, acc |-> acc, targets |-> targets, preds |-> preds,
     loss |-> <<>>, logged |-> <<>>]

\* The body training_step and validation_step share (lines 55-76 and 81-102):
\* targets, forward pass, loss, predictions, accuracy update, the two self.log
FitStep(b, acc, lossName, accName) ==
    IF ~HasKeys(b, {"score_pos", "score_neg"})
    THEN Raised("KeyError", acc, <<>>, <<>>)
    ELSE IF ~Broadcastable(Len(b["score_pos"]), Len(b["score_neg"]))
    THEN Raised("ShapeError", acc, <<>>, <<>>)
    ELSE IF ~HasKeys(b, {"pos_samples", "pos_atn_masks", "neg_samples", "neg_atn_masks"})
    THEN Raised("KeyError", acc, Targets(b), <<>>)
    ELSE
      LET targets == Targets(b)
          s       == Scorer(b)
      IN  IF ~Broadcastable(Len(s.pos_score), Len(s.neg_score))
          THEN Raised("ShapeError", acc, targets, <<>>)
          ELSE
            LET loss  == Loss(s.pos_score, s.neg_score)
                preds == TrainPreds(s.pos_score, s.neg_score)
            IN  IF Len(preds) # Len(targets)
                THEN Raised("ShapeError", acc, targets, preds)
                ELSE
                  LET acc2 == AccUpdate(acc, preds, targets)
                  IN  [outcome |-> "ok", acc |-> acc2, targets |-> targets,
                       preds |-> preds, loss |-> loss,
                       logged |-> (lossName :> loss) @@ (accName :> Value(acc2))]

\* test_step (lines 105-130): the state it leaves when it returns or raises
TestStep(b, acc, sp) ==
    LET R(kind, a, s, targets, preds, lg) ==
            [outcome |-> kind, acc |-> a, spearman |-> s, targets |-> targets,
             preds |-> preds, logged |-> lg]
    IN
    IF ~HasKeys(b, {"score_pos", "score_neg"})
    THEN R("KeyError", acc, sp, <<>>, <<>>, <<>>)
    ELSE IF ~Broadcastable(Len(b["score_pos"]), Len(b["score_neg"]))
    THEN R("ShapeError", acc, sp, <<>>, <<>>, <<>>)
    ELSE IF ~HasKeys(b, {"pos_samples", "pos_atn_masks", "neg_samples", "neg_atn_masks"})
    THEN R("KeyError", acc, sp, Targets(b), <<>>, <<>>)
    ELSE
      LET targets   == Targets(b)
          s         == Scorer(b)
          pos_score == SigmoidAll(s.pos_score)
          neg_score == SigmoidAll(s.neg_score)
      IN  IF ~Broadcastable(Len(pos_score), Len(neg_score))
          THEN R("ShapeError", acc, sp, targets, <<>>, <<>>)
          ELSE
            LET preds == TestPreds(pos_score, neg_score)
            IN  IF Len(preds) # Len(targets)
                THEN R("ShapeError", acc, sp, targets, preds, <<>>)
                ELSE
                  LET acc2 == AccUpdate(acc, preds, targets)
                      lg1  == ("test_acc" :> Value(acc2))
                  IN  IF ~HasKeys(b, {"rank_pos"})
                      THEN R("KeyError", acc2, sp, targets, preds, lg1)
                      ELSE IF Len(b["rank_pos"]) # Len(pos_score)
                      THEN R("ShapeError", acc2, sp, targets, preds, lg1)
                      ELSE
                        LET sp2 == SpearmanUpdate(sp, pos_score, b["rank_pos"])
                        IN  IF ~HasKeys(b, {"rank_neg"})
                            THEN R("KeyError", acc2, sp2, targets, preds, lg1)
                            ELSE IF Len(b["rank_neg"]) # Len(neg_score)
                            THEN R("ShapeError", acc2, sp2, targets, preds, lg1)
                            ELSE
                              LET sp3 == SpearmanUpdate(sp2, neg_score, b["rank_neg"])
                              IN  R("ok", acc2, sp3, targets, preds,
                                    lg1 @@ ("test_spearman_coeff" :> Len(sp3.preds)))

Call(op, outcome, targets, preds, ret, prior) ==
    [op |-> op, outcome |-> outcome, targets |-> targets, preds |-> preds,
     ret |-> ret, prior |-> prior]

\* training_step returns the loss; <<>> stands for a handler returning None
training_step(b) ==
    LET r == FitStep(b, train_acc, "train_loss", "train_acc")
    IN  /\ train_acc' = r.acc
        /\ UNCHANGED <<val_acc, test_acc, test_spearman_coeff>>
        /\ logged' = r.logged
        /\ last' = Call("training_step", r.outcome, r.targets, r.preds, r.loss, <<>>)

\* mutant of validation_step: it updates and logs the training accumulator
validation_step_UpdatesTrainAcc(b) ==
    LET r == FitStep(b, train_acc, "val_loss", "val_acc")
    IN  /\ train_acc' = r.acc
        /\ UNCHANGED <<val_acc, test_acc, test_spearman_coeff>>
        /\ logged' = r.logged
        /\ last' = Call("validation_step", r.outcome, r.targets, r.preds, <<>>, <<>>)

validation_step(b) ==
    LET r == FitStep(b, val_acc, "val_loss", "val_acc")
    IN  /\ val_acc' = r.acc
        /\ UNCHANGED <<train_acc, test_acc, test_spearman_coeff>>
        /\ logged' = r.logged
        /\ last' = Call("validation_step", r.outcome, r.targets, r.preds, <<>>, <<>>)

\* mutant of test_step: the two rank updates are made in the other order
test_step_NegativeRoleFirst(b) ==
    LET r  == TestStep(b, test_acc, test_spearman_coeff)
        s  == Scorer(b)
        sw == SpearmanUpdate(
                  SpearmanUpdate(test_spearman_coeff,
                                 SigmoidAll(s.neg_score), b["rank_neg"]),
                  SigmoidAll(s.pos_score), b["rank_pos"])
    IN  /\ test_acc' = r.acc
        /\ test_spearman_coeff' = IF r.outcome = "ok" THEN sw ELSE r.spearman
        /\ UNCHANGED <<train_acc, val_acc>>
        /\ logged' = r.logged
        /\ last' = Call("test_step", r.outcome, r.targets, r.preds, <<>>, <<>>)

test_step(b) ==
    LET r == TestStep(b, test_acc, test_spearman_coeff)
    IN  /\ test_acc' = r.acc
        /\ test_spearman_coeff' = r.spearman
        /\ UNCHANGED <<train_acc, val_acc>>
        /\ logged' = r.logged
        /\ last' = Call("test_step", r.outcome, r.targets, r.preds, <<>>, <<>>)

\* ------------------------------------------------------- epoch-start hooks
\* mutant of on_train_epoch_start: the reset is missing
on_train_epoch_start_NoReset ==
    UNCHANGED <<train_acc, val_acc, test_acc, test_spearman_coeff>>

on_train_epoch_start ==
    /\ train_acc' = AccReset(train_acc)
    /\ UNCHANGED <<val_acc, test_acc, test_spearman_coeff>>

on_validation_epoch_start ==
    /\ val_acc' = AccReset(val_acc)
    /\ UNCHANGED <<train_acc, test_acc, test_spearman_coeff>>

\* mutant of on_test_epoch_start: the rank-correlation reset is missing
on_test_epoch_start_AccOnly ==
    /\ test_acc' = AccReset(test_acc)
    /\ UNCHANGED <<train_acc, val_acc, test_spearman_coeff>>

on_test_epoch_start ==
    /\ test_acc' = AccReset(test_acc)
    /\ test_spearman_coeff' = SpearmanReset(test_spearman_coeff)
    /\ UNCHANGED <<train_acc, val_acc>>

\* ------------------------------------------------------------- the driver
\* The Trainer: it starts an epoch of a phase by calling the phase's hook,
\* feeds it batches one at a time, and ends it or is stopped in the middle.
AccOf(p) ==
    IF p = "train" THEN train_acc ELSE IF p = "val" THEN val_acc ELSE test_acc

HookName(p) ==
    IF p = "train" THEN "on_train_epoch_start"
    ELSE IF p = "val" THEN "on_validation_epoch_start"
    ELSE "on_test_epoch_start"

\* what the driver notes of a step call: whether it returned, and of the
\* examples it was given how many the handler judged and how many correctly
Entry(call) ==
    IF call.outcome = "ok"
    THEN [ok |-> TRUE, c |-> NumCorrect(call.preds, call.targets), n |-> Len(call.preds)]
    ELSE [ok |-> FALSE, c |-> 0, n |-> 0]

Noted(p) ==
    /\ seen' = [seen EXCEPT ![p] = Append(@, Entry(last'))]
    /\ global_step' = global_step + 1
    /\ UNCHANGED <<epoch, batch>>

BeginEpoch(p) ==
    /\ epoch[p] # "running"
    /\ epoch' = [epoch EXCEPT ![p] = "running"]
    /\ seen' = [seen EXCEPT ![p] = <<>>]
    /\ last' = Call(HookName(p), "ok", <<>>, <<>>, <<>>, <<epoch[p], Value(AccOf(p))>>)
    /\ logged' = <<>>
    /\ UNCHANGED <<global_step, batch>>

TrainEpochStart == BeginEpoch("train") /\ on_train_epoch_start
ValidationEpochStart == BeginEpoch("val") /\ on_validation_epoch_start
TestEpochStart == BeginEpoch("test") /\ on_test_epoch_start

Running(p) == epoch[p] = "running" /\ global_step < MaxSteps

TrainBatch ==
    \E b \in EpochBatches : Running("train") /\ training_step(b) /\ Noted("train")
ValidationBatch ==
    \E b \in EpochBatches : Running("val") /\ validation_step(b) /\ Noted("val")
TestBatch ==
    \E b \in EpochBatches : Running("test") /\ test_step(b) /\ Noted("test")

\* on_epoch=True: at the end of the epoch the running value goes to the sink
EpochEnd ==
    \E p \in Phases :
        /\ epoch[p] = "running"
        /\ epoch' = [epoch EXCEPT ![p] = "idle"]
        /\ logged' = ((IF p = "train" THEN "train_acc"
                       ELSE IF p = "val" THEN "val_acc" ELSE "test_acc")
                      :> Value(AccOf(p)))
        /\ last' = Call("epoch_end", "ok", <<>>, <<>>, <<>>, <<>>)
        /\ UNCHANGED <<metrics, seen, global_step, batch>>

\* the driver is stopped in the middle of an epoch: nothing is read or reset
EpochStopped ==
    \E p \in Phases :
        /\ epoch[p] = "running"
        /\ epoch' = [epoch EXCEPT ![p] = "stopped"]
        /\ logged' = <<>>
        /\ last' = Call("stopped", "ok", <<>>, <<>>, <<>>, <<>>)
        /\ UNCHANGED <<metrics, seen, global_step, batch>>

Fresh ==
    /\ train_acc = EmptyAcc
    /\ val_acc = EmptyAcc
    /\ test_acc = EmptyAcc
    /\ test_spearman_coeff = EmptySpearman
    /\ seen = [p \in Phases |-> <<>>]
    /\ global_step = 0
    /\ last = Call("__init__", "ok", <<>>, <<>>, <<>>, <<>>)
    /\ logged = <<>>

Init ==
    /\ Fresh
    /\ epoch = [p \in Phases |-> "idle"]
    /\ batch = <<>>

Next ==
    \/ TrainEpochStart
    \/ ValidationEpochStart
    \/ TestEpochStart
    \/ TrainBatch
    \/ ValidationBatch
    \/ TestBatch
    \/ EpochEnd
    \/ EpochStopped

Spec == Init /\ [][Next]_vars

\* ---------------------------------------------- one batch, one call per phase
\* A freshly constructed module whose three epochs have just started is given
\* one batch, drawn from every well-formed and malformed batch within the
\* bounds; each phase's step handler is applied to it once.
StepInit ==
    /\ Fresh
    /\ epoch = [p \in Phases |-> "running"]
    /\ batch \in Batches(MaxB)

Once(p) == seen[p] = <<>>

TrainOnce == Once("train") /\ training_step(batch) /\ Noted("train")
ValidationOnce == Once("val") /\ validation_step(batch) /\ Noted("val")
TestOnce == Once("test") /\ test_step(batch) /\ Noted("test")

StepNext == TrainOnce \/ ValidationOnce \/ TestOnce

StepSpec == StepInit /\ [][StepNext]_vars

\* ------------------------------------------------------------------ claims
Steps == {"training_step", "validation_step", "test_step"}

PhaseOf(op) ==
    IF op = "training_step" THEN "train"
    ELSE IF op = "validation_step" THEN "val" ELSE "test"

RECURSIVE SumCorrect(_)
SumCorrect(s) == IF s = <<>> THEN 0 ELSE s[1].c + SumCorrect(Tail(s))

RECURSIVE SumExamples(_)
SumExamples(s) == IF s = <<>> THEN 0 ELSE s[1].n + SumExamples(Tail(s))

AllOk(p) == \A i \in 1..Len(seen[p]) : seen[p][i].ok

\* the accumulators of a phase are in their empty state
PhaseEmpty(p) ==
    /\ AccOf(p) = EmptyAcc
    /\ p = "test" => test_spearman_coeff = EmptySpearman

\* C1: after the reset at the epoch start and N >= 0 returned steps, a
\* phase's accuracy accumulator holds the number of correctly predicted
\* examples of exactly those N batches over the number of examples of exactly
\* those N batches (pooled over examples); with N = 0 it is the empty state.
C1_PooledAccuracy ==
    \A p \in Phases :
        AllOk(p) =>
            Value(AccOf(p)) = <<SumCorrect(seen[p]), SumExamples(seen[p])>>

\* C1 witness: a training epoch that follows earlier steps has taken two
\* batches of different sizes; the pooled value 2/3 is not the mean 3/4 of the
\* two per-batch accuracies.
C1_Witness ==
    /\ epoch["train"] = "running"
    /\ global_step = 3
    /\ seen["val"] = <<>> /\ seen["test"] = <<>>
    /\ Len(seen["train"]) = 2
    /\ AllOk("train")
    /\ seen["train"][1].n # seen["train"][2].n
    /\ Value(train_acc) = <<2, 3>>

\* C2: an epoch of a phase starts with that phase's accumulators reset, before
\* its first step, also after an epoch that was cut short; and accumulators
\* that hold something are cleared by nothing but the epoch-start hook of
\* their phase.
C2_ResetAtEpochStart ==
    /\ [](\A p \in Phases :
             (epoch[p] = "running" /\ seen[p] = <<>>) => PhaseEmpty(p))
    /\ [][ /\ (train_acc # EmptyAcc /\ train_acc' = EmptyAcc)
                => last'.op = "on_train_epoch_start"
           /\ (val_acc # EmptyAcc /\ val_acc' = EmptyAcc)
                => last'.op = "on_validation_epoch_start"
           /\ (test_acc # EmptyAcc /\ test_acc' = EmptyAcc)
                => last'.op = "on_test_epoch_start"
           /\ (test_spearman_coeff # EmptySpearman
                 /\ test_spearman_coeff' = EmptySpearman)
                => last'.op = "on_test_epoch_start" ]_vars

\* C2 witness: a test epoch starts after one that was stopped with examples
\* and rank pairs accumulated, and starts empty.
C2_Witness ==
    /\ last.op = "on_test_epoch_start"
    /\ last.prior[1] = "stopped"
    /\ last.prior[2][2] > 0
    /\ epoch["test"] = "running"
    /\ PhaseEmpty("test")

\* C3 (as claimed, for the batches whose roles differ in size): a step on a
\* batch whose positive and negative roles have different numbers of rows
\* raises, and leaves no loss, no log entry and no metric update; the rows of
\* the two roles are never paired up by truncation or broadcast.
RoleSizesDiffer(b) ==
    /\ HasKeys(b, {"pos_samples", "neg_samples"})
    /\ Len(b["pos_samples"]) # Len(b["neg_samples"])

C3_MismatchedRolesFail ==
    (last.op \in Steps /\ RoleSizesDiffer(batch))
    => /\ last.outcome # "ok"
       /\ last.preds = <<>>
       /\ last.ret = <<>>
       /\ logged = <<>>
       /\ PhaseEmpty(PhaseOf(last.op))

\* C4 (as claimed): every per-example train/validation loss is finite and is
\* the value -log_sigmoid(pos - neg) = softplus(neg - pos).
LossName(op) == IF op = "training_step" THEN "train_loss" ELSE "val_loss"

LogSigmoidLoss(p, n) == [kind |-> "finite", d |-> n - p]

C4_LossFinite ==
    (last.op \in {"training_step", "validation_step"} /\ last.outcome = "ok"
       /\ WellFormed(batch))
    => \A i \in 1..Len(batch["pos_samples"]) :
          logged[LossName(last.op)][i] =
              LogSigmoidLoss(batch["pos_samples"][i], batch["neg_samples"][i])

\* C5 (as claimed): the loss a training or validation step reports is one
\* batch-level value, whatever the batch size.
C5_BatchLevelLoss ==
    (last.op \in {"training_step", "validation_step"} /\ last.outcome = "ok")
    => /\ Len(logged[LossName(last.op)]) = 1
       /\ last.op = "training_step" => Len(last.ret) = 1

\* C6: in every phase the prediction of an example is the strict comparison
\* sigmoid(pos_score) > sigmoid(neg_score) of its two model scores, so the
\* three phases predict alike and equal scores are predicted False.
C6_StrictSigmoidPrediction ==
    (last.op \in Steps /\ last.outcome = "ok" /\ WellFormed(batch))
    => /\ Len(last.preds) = Len(batch["pos_samples"])
       /\ \A i \in 1..Len(last.preds) :
             /\ last.preds[i] =
                  (Sigmoid(batch["pos_samples"][i]) > Sigmoid(batch["neg_samples"][i]))
             /\ batch["pos_samples"][i] = batch["neg_samples"][i]
                  => last.preds[i] = FALSE

\* C6 witness: a test step has judged an example with scores 0.0 and 0.0,
\* which the feedback prefers, and predicted False.
C6_Witness ==
    /\ last.op = "test_step" /\ last.outcome = "ok" /\ WellFormed(batch)
    /\ \E i \in 1..Len(last.preds) :
          /\ batch["pos_samples"][i] = 0 /\ batch["neg_samples"][i] = 0
          /\ last.targets[i] = 1
          /\ last.preds[i] = FALSE

\* C7: in every phase the target of an example is 1 exactly when its
\* score_pos exceeds its score_neg (0 when they are equal), whatever the model
\* scores and rank labels; the batch of the end-to-end scenario gets targets
\* [1, 0], predictions [True, False] and accuracy 2/2.
Scenario ==
    MkBatch(<<Ex(2, 0, 5, 1, 1, 2), Ex(-1, 1, 1, 3, 2, 1)>>)

C7_TargetFromFeedback ==
    (last.op \in Steps /\ last.outcome = "ok" /\ WellFormed(batch))
    => /\ Len(last.targets) = Len(batch["score_pos"])
       /\ \A i \in 1..Len(last.targets) :
             last.targets[i] =
                 (IF batch["score_pos"][i] > batch["score_neg"][i] THEN 1 ELSE 0)
       /\ batch = Scenario =>
             /\ last.targets = <<1, 0>>
             /\ last.preds = <<TRUE, FALSE>>
             /\ Value(AccOf(PhaseOf(last.op))) = <<2, 2>>

\* C7 witness: a training step has run on the scenario's batch.
C7_Witness ==
    /\ batch = Scenario
    /\ last.op = "training_step" /\ last.outcome = "ok"
    /\ Value(train_acc) = <<2, 2>>

\* C8: a test step that returns appends to the rank-correlation accumulator
\* the transformed positive scores with rank_pos and then the transformed
\* negative scores with rank_neg, having counted the batch in the accuracy;
\* training and validation steps leave it alone; so after a reset and test
\* steps that all returned it holds twice as many pairs as test_acc counted.
C8_RankPairsTwiceExamples ==
    /\ [](AllOk("test") =>
             /\ Len(test_spearman_coeff.preds) = 2 * test_acc.total
             /\ Len(test_spearman_coeff.target) = 2 * test_acc.total)
    /\ [][ /\ (last'.op = "test_step" /\ last'.outcome = "ok") =>
                \A b \in EpochBatches :
                    test_step(b) =>
                        /\ test_acc'.total = test_acc.total + Len(b["pos_samples"])
                        /\ test_spearman_coeff'.preds =
                             test_spearman_coeff.preds
                               \o [i \in 1..Len(b["pos_samples"]) |->
                                      Sigmoid(b["pos_samples"][i])]
                               \o [i \in 1..Len(b["neg_samples"]) |->
                                      Sigmoid(b["neg_samples"][i])]
                        /\ test_spearman_coeff'.target =
                             test_spearman_coeff.target \o b["rank_pos"] \o b["rank_neg"]
           /\ last'.op \in {"training_step", "validation_step"}
                => UNCHANGED test_spearman_coeff ]_vars

\* C8 witness: two test steps of one epoch have returned, on batches of one
\* and of two examples.
C8_Witness ==
    /\ Len(seen["test"]) = 2 /\ AllOk("test")
    /\ test_acc.total = 3
    /\ Len(test_spearman_coeff.preds) = 6

\* C9: a step or an epoch-start hook of one phase leaves the accumulators of
\* the other phases as they were, however the phases' epochs interleave.
C9_PhaseIsolation ==
    [][ /\ last'.op \in {"training_step", "on_train_epoch_start"}
             => UNCHANGED <<val_acc, test_acc, test_spearman_coeff>>
        /\ last'.op \in {"validation_step", "on_validation_epoch_start"}
             => UNCHANGED <<train_acc, test_acc, test_spearman_coeff>>
        /\ last'.op \in {"test_step", "on_test_epoch_start"}
             => UNCHANGED <<train_acc, val_acc>> ]_vars

\* C9 witness: a validation step has returned in the middle of a training
\* epoch that has already counted examples.
C9_Witness ==
    /\ epoch["train"] = "running" /\ Len(seen["train"]) >= 1
    /\ train_acc.total > 0
    /\ last.op = "validation_step" /\ last.outcome = "ok"
    /\ val_acc.total > 0

\* C10 (as claimed): a step that raises leaves the accumulators of its phase
\* as they were before the step (here: empty, each handler being applied once
\* to accumulators just reset).
C10_FailedStepLeavesMetrics ==
    (last.op \in Steps /\ last.outcome # "ok") => PhaseEmpty(PhaseOf(last.op))

====
